---- MODULE Spec2Model ----
(***************************************************************************)
(* A model of the procedural galaxy generator and its kinematic integrator *)
(* (face-hh/galaxy): generateStarField / updateStarPositions,              *)
(* generateBlackHoles / updateBlackHoles, generateSolarSystem /            *)
(* updatePlanets and the frame loop of main.                               *)
(*                                                                         *)
(* Numbers.  The program computes in float and double; the model computes  *)
(* in fixed point on integers:                                             *)
(*   - an angle is a whole number of twelfths of a turn (PI = 6 steps);    *)
(*     Cos5 and Sin5 tabulate 5*cos and 5*sin on that grid, rounded half   *)
(*     up, which keeps cos^2 + sin^2 = 1 exact on the grid;                *)
(*   - a dimensionless float (a uniform variate, exp, the CDF F) is an     *)
(*     integer number of millionths (Fx);                                  *)
(*   - a float length of the galaxy is a whole number of length units, a   *)
(*     double length of the solar subsystem a whole number of 1e-4 units;  *)
(*   - a float angular velocity is in 1e-3 step/s, a double one in 1e-6    *)
(*     step/s;                                                             *)
(*   - the IEEE values a division by zero produces are the sentinels INF   *)
(*     (either infinity) and NAN.                                          *)
(* Every product is rounded where the program rounds it (after each        *)
(* operation).                                                             *)
(***************************************************************************)
EXTENDS Integers, Sequences, FiniteSets, TLC

VARIABLES
    stars,          \* std::vector<Star> of main / of the caller
    genPc,          \* position of generateStarField: "idle", "loop", "done"
    genI,           \* its loop index i
    rng,            \* its std::mt19937 (the engine's state)
    galaxyConfig,   \* the GalaxyConfig it was called with
    rejections,     \* candidates the current generation has rejected
    draws,          \* the random draws of the latest loop pass, in order
    blackHoles,     \* std::vector<BlackHole>
    bhConfig,       \* the BlackHoleConfig and seed of the caller
    solarSystem,    \* SolarSystem solarSystem (global)
    sun,            \* Sun sun (global)
    planets,        \* std::vector<Planet> planets (global)
    randState,      \* the state of the C library's rand()
    lastCall,       \* the operation that ran last
    lastDt,         \* the deltaTime of the last integrator call
    hung,           \* the function that is in a loop it never leaves, or "none"
    nGenerations,   \* generator calls so far (bounded)
    nUpdates,       \* integrator calls so far, since the generation for stars
    mainPc,         \* position of main
    frameLog,       \* the calls main made in the current frame, in order
    probe           \* a variate, a scale length and what each sampler returns

vars == <<stars, genPc, genI, rng, galaxyConfig, rejections, draws, blackHoles, bhConfig,
          solarSystem, sun, planets, randState, lastCall, lastDt, hung,
          nGenerations, nUpdates, mainPc, frameLog, probe>>

starVars == <<stars, genPc, genI, rng, galaxyConfig, rejections, draws>>
bhVars == <<blackHoles, bhConfig>>
solarVars == <<solarSystem, sun, planets, randState>>
mainVars == <<mainPc, frameLog>>

(***************************************************************************)
(* Bounds of the model.                                                    *)
(***************************************************************************)
MaxStars == 3
MaxBlackHoles == 2
MaxGenerations == 3
MaxUpdates == 2
MaxFrames == 4
MaxRejections == 4

(***************************************************************************)
(* Fixed-point arithmetic.                                                 *)
(***************************************************************************)
Fx == 1000 * 1000

Abs(n) == IF n < 0 THEN -n ELSE n

Sign(n) == IF n < 0 THEN -1 ELSE 1

Min(a, b) == IF a < b THEN a ELSE b

\* n / d rounded to the nearest integer, halves up (d > 0).
RoundDiv(n, d) == (2 * n + d) \div (2 * d)

\* <<q, r>> with a * b = q * c + r and 0 <= r < c, for 0 <= a < c, b >= 0,
\* computed without forming a * b (which may not fit 32 bits).
RECURSIVE MulDivRem(_, _, _)
MulDivRem(a, b, c) ==
    IF b = 0 THEN <<0, 0>>
    ELSE LET h == MulDivRem(a, b \div 2, c)
             t == 2 * h[2] + (b % 2) * a
         IN  <<2 * h[1] + t \div c, t % c>>

\* floor(a * b / c) for a, b >= 0 and c > 0.
MulDiv(a, b, c) == (a \div c) * b + MulDivRem(a % c, b, c)[1]

\* a * b / c with the sign of a * b, the magnitude rounded down (c > 0).
SMulDiv(a, b, c) == Sign(a) * Sign(b) * MulDiv(Abs(a), Abs(b), c)

\* floor(sqrt(n)) for 0 <= n, by bisection on lo..hi.
RECURSIVE SqrtBetween(_, _, _)
SqrtBetween(n, lo, hi) ==
    IF lo >= hi THEN lo
    ELSE LET mid == (lo + hi + 1) \div 2
         IN  IF mid * mid <= n THEN SqrtBetween(n, mid, hi)
             ELSE SqrtBetween(n, lo, mid - 1)

ISqrt(n) == SqrtBetween(n, 0, 46340)

(***************************************************************************)
(* Angles: M_PI and the cos / sin of <cmath> on the grid of twelfths.      *)
(***************************************************************************)
PI == 6
TwoPi == 2 * PI

\* IEEE special values: INF stands for +inf and -inf, NAN for a NaN.
INF == 2000 * Fx
NAN == 0 - 2000 * Fx
IsFinite(v) == v # INF /\ v # NAN

CosTable == <<5, 4, 3, 0, -3, -4, -5, -4, -3, 0, 3, 4>>

Cos5(a) == CosTable[(a % TwoPi) + 1]

Sin5(a) == Cos5(a - 3)

\* radius * cos(angle) and radius * sin(angle), rounded to the length grid.
TimesCos(radius, angle) ==
    IF ~IsFinite(angle) \/ ~IsFinite(radius) THEN NAN
    ELSE RoundDiv(radius * Cos5(angle), 5)

TimesSin(radius, angle) ==
    IF ~IsFinite(angle) \/ ~IsFinite(radius) THEN NAN
    ELSE RoundDiv(radius * Sin5(angle), 5)

\* while (angle > 2*PI) angle -= 2*PI; the value the loop exits with: the
\* first a - k * 2*PI that is not above 2*PI, a itself when the test fails.
WrapAbove(a) == IF a > TwoPi THEN ((a - 1) % TwoPi) + 1 ELSE a

\* while (angle < 0) angle += 2*PI; the first a + k * 2*PI that is not
\* below 0.
WrapBelow(a) == IF a < 0 THEN a % TwoPi ELSE a

\* The two loops of the integrator, in the order the code runs them.
WrapAngle(a) == WrapBelow(WrapAbove(a))

\* The deltaTime values the integrators are called with (seconds).
DeltaTimes == {-300, 0, 300}

(***************************************************************************)
(* <cmath> on fixed point: exp, log, pow(., 1/3), acos, atan2, sqrt.       *)
(***************************************************************************)
\* a * b for two non-negative Fx numbers, rounded down.
FxMul(a, b) ==
    LET ah == a \div 1000
        al == a % 1000
        bh == b \div 1000
        bl == b % 1000
        mid == ah * bl + al * bh
    IN  ah * bh + mid \div 1000 + ((mid % 1000) * 1000 + al * bl) \div Fx

\* exp(-k) for k = 0..14 in Fx; below one millionth from k = 15 on.
ExpNegInt == <<1000000, 367879, 135335, 49787, 18316, 6738, 2479, 912, 335,
               123, 45, 17, 6, 2, 1>>

\* exp(-f) for 0 <= f < 1 by the Taylor series in Horner form, from term n.
RECURSIVE ExpNegSeries(_, _)
ExpNegSeries(f, n) ==
    IF n > 12 THEN Fx
    ELSE Fx - FxMul(f, ExpNegSeries(f, n + 1)) \div n

\* std::exp(-t) for t >= 0.
ExpNeg(t) ==
    LET k == t \div Fx
    IN  IF k >= Len(ExpNegInt) THEN 0
        ELSE FxMul(ExpNegInt[k + 1], ExpNegSeries(t % Fx, 1))

LN2 == 693147

\* 2 * atanh(w) = 2 * (w + w^3/3 + ... ), from the term with odd power n;
\* p is w^n and w2 is w^2.
RECURSIVE AtanhSeries(_, _, _)
AtanhSeries(p, w2, n) ==
    IF n > 15 \/ p = 0 THEN 0
    ELSE p \div n + AtanhSeries(FxMul(p, w2), w2, n + 2)

\* std::log(x) for x > 0: halve or double x into [sqrt(1/2), sqrt(2)], then
\* log(m) = 2 * atanh((m - 1) / (m + 1)).
RECURSIVE Ln(_)
Ln(x) ==
    IF x > 1414213 THEN Ln(x \div 2) + LN2
    ELSE IF x < 707107 THEN Ln(2 * x) - LN2
    ELSE LET w == MulDiv(Abs(x - Fx), Fx, Fx + x)
             v == 2 * AtanhSeries(w, FxMul(w, w), 1)
         IN  IF x >= Fx THEN v ELSE 0 - v

\* floor of the cube root, by bisection on lo..hi.
RECURSIVE CbrtBetween(_, _, _)
CbrtBetween(n, lo, hi) ==
    IF lo >= hi THEN lo
    ELSE LET mid == (lo + hi + 1) \div 2
         IN  IF mid * mid * mid <= n THEN CbrtBetween(n, mid, hi)
             ELSE CbrtBetween(n, lo, mid - 1)

\* pow(u, 1.0f / 3.0f) for an Fx u in [0, 1), in thousandths.
Cbrt1000(u) == CbrtBetween(u * 1000, 0, 1290)

\* sqrt rounded to the nearest integer.
SqrtNearest(n) ==
    LET f == ISqrt(n) IN IF n - f * f > f THEN f + 1 ELSE f

\* acos(w) for an Fx w in [-1, 1], to the nearest quarter turn:
\* 0 above cos(45 deg), PI below cos(135 deg), PI/2 between.
Acos(w) ==
    IF w > 707107 THEN 0
    ELSE IF w < -707107 THEN PI
    ELSE PI \div 2

\* atan2(z, x) on the grid, in (-PI, PI]: the direction closest to (x, z);
\* atan2(0, 0) = 0.
Atan2(z, x) ==
    IF x = 0 /\ z = 0 THEN 0
    ELSE CHOOSE a \in (1 - PI)..PI :
            \A b \in (1 - PI)..PI :
                x * Cos5(a) + z * Sin5(a) >= x * Cos5(b) + z * Sin5(b)

(***************************************************************************)
(* std::mt19937 and the distributions drawn from it.  The engine is a      *)
(* linear congruential generator on 0..RngMod-1 seeded with the seed; a    *)
(* uniform_real_distribution<float>(0, 1) draw advances it once and        *)
(* returns state / RngMod in [0, 1), 0 included.                           *)
(***************************************************************************)
RngMod == 64

Seeds == 0..(RngMod - 1)

\* std::mt19937 rng(seed)
RngSeed(seed) == seed % RngMod

RngNext(s) == (37 * s + 11) % RngMod

\* The engine after k draws.
RECURSIVE RngAfter(_, _)
RngAfter(s, k) == IF k = 0 THEN s ELSE RngAfter(RngNext(s), k - 1)

\* dist(rng): the value of the k-th draw from state s, in Fx.
Dist(s, k) == (RngAfter(s, k) * Fx) \div RngMod

\* Quantiles of the standard normal distribution, in tenths.
NormalTable == <<-19, -13, -10, -8, -6, -4, -2, -1, 1, 2, 4, 6, 8, 10, 13, 19>>

\* normalDist(rng): the value of the k-th draw from state s, in tenths.
NormalDist(s, k) == NormalTable[(RngAfter(s, k) * Len(NormalTable)) \div RngMod + 1]

\* dist(rng) * 2.0f * M_PI, in steps: in [0, 2*PI).
UniformAngle(u) == (u * TwoPi) \div Fx

(***************************************************************************)
(* Units shared by the galaxy's float bodies.                              *)
(***************************************************************************)
\* float angular velocities: 1e-3 step/s.
AvScale == 10 * 100

\* An angular quantity in radians (scaled) as the same quantity in steps
\* (same scale): 1 rad = 6 / 3.142 steps.
RadToSteps(x) == RoundDiv(x * 6000, 3142)

\* angle + angularVelocity * deltaTime as IEEE computes it: a zero times an
\* infinity is a NaN, and an infinity stays one.
Advance(angle, angularVelocity, dt) ==
    IF angle = NAN \/ angularVelocity = NAN THEN NAN
    ELSE IF angularVelocity = INF THEN (IF dt = 0 THEN NAN ELSE INF)
    ELSE IF angle = INF THEN INF
    ELSE angle + RoundDiv(angularVelocity * dt, AvScale)

\* The normalisation loops on a value that may not be finite: every
\* comparison with a NaN is false, so both loops are skipped.
NormalizeAngle(a) == IF a = NAN THEN NAN ELSE WrapAngle(a)

\* sqrt(x*x + z*z) as the claims recover a radius from a position.
Hypot(x, z) == IF ~IsFinite(x) \/ ~IsFinite(z) THEN NAN ELSE SqrtNearest(x * x + z * z)

(***************************************************************************)
(* The solar subsystem (SolarSystem.cpp).                                  *)
(***************************************************************************)
\* Lengths of the subsystem are doubles: whole numbers of 1e-4 units.
SolarUnit == 100 * 100

\* double angular velocities: 1e-6 step/s.
AvScaleD == Fx

NUM_PLANETS == 8

\* PLANET_DATA: orbitRadius in 1/100 AU, radius in 1/1000 Earth radii,
\* colour in tenths.
PLANET_DATA == <<
    [name |-> "Mercury", orbitRadius |-> 39,   radius |-> 383,   r |-> 7, g |-> 7, b |-> 7],
    [name |-> "Venus",   orbitRadius |-> 72,   radius |-> 949,   r |-> 9, g |-> 8, b |-> 6],
    [name |-> "Earth",   orbitRadius |-> 100,  radius |-> 1000,  r |-> 3, g |-> 5, b |-> 8],
    [name |-> "Mars",    orbitRadius |-> 152,  radius |-> 532,   r |-> 8, g |-> 4, b |-> 3],
    [name |-> "Jupiter", orbitRadius |-> 520,  radius |-> 11210, r |-> 9, g |-> 8, b |-> 6],
    [name |-> "Saturn",  orbitRadius |-> 954,  radius |-> 9450,  r |-> 9, g |-> 9, b |-> 7],
    [name |-> "Uranus",  orbitRadius |-> 1920, radius |-> 4010,  r |-> 6, g |-> 8, b |-> 9],
    [name |-> "Neptune", orbitRadius |-> 3010, radius |-> 3880,  r |-> 4, g |-> 5, b |-> 9] >>

\* rand(): a linear congruential generator on 0..RAND_MAX.  Its state is
\* global and nothing in the program calls srand.
RAND_MAX == 15

RandNext(s) == (5 * s + 3) % (RAND_MAX + 1)

\* The value of the k-th rand() call from state s (k >= 1).
RECURSIVE RandAt(_, _)
RandAt(s, k) == IF k = 1 THEN RandNext(s) ELSE RandAt(RandNext(s), k - 1)

\* (rand() / (double)RAND_MAX) * 2.0 * M_PI, in steps.
RandAngle(r) == RoundDiv(r * TwoPi, RAND_MAX)

\* 0.0005 / sqrt(orbitRadius), in 1e-6 step/s.
OrbitalSpeed(orbitRadius) == (RadToSteps(500) * SolarUnit) \div ISqrt(orbitRadius * SolarUnit)

\* planet.x = sun.x + planet.orbitRadius * cos(planet.angle) (and .z).
PlanetX(s, orbitRadius, angle) == s.x + TimesCos(orbitRadius, angle)

PlanetZ(s, orbitRadius, angle) == s.z + TimesSin(orbitRadius, angle)

\* The body of the generation loop for PLANET_DATA[i], r the rand() value.
NewPlanet(i, s, r) ==
    LET orbit == PLANET_DATA[i].orbitRadius * 15
        ang == RandAngle(r)
    IN  [orbitRadius |-> orbit,
         radius |-> RoundDiv(PLANET_DATA[i].radius, 10),
         r |-> PLANET_DATA[i].r, g |-> PLANET_DATA[i].g, b |-> PLANET_DATA[i].b,
         angle |-> ang,
         orbitalSpeed |-> OrbitalSpeed(orbit),
         x |-> PlanetX(s, orbit, ang),
         y |-> s.y,
         z |-> PlanetZ(s, orbit, ang)]

\* planets.clear()
PlanetsKeptAcrossGeneration(ps) == ps

ClearPlanets(ps) == <<>>

\* for (int i = 0; i < NUM_PLANETS; i++) ... planets.push_back(planet);
\* the i-th planet takes the (3 + i)-th rand() value of the call.
RECURSIVE PushPlanets(_, _, _, _)
PushPlanets(ps, i, s, rs) ==
    IF i > NUM_PLANETS THEN ps
    ELSE PushPlanets(Append(ps, NewPlanet(i, s, RandAt(rs, 3 + i))), i + 1, s, rs)

\* The subsystem centre from the first three rand() values.
SolarCentre(rs) ==
    LET radius == 200 * SolarUnit + RoundDiv(RandAt(rs, 1) * 400 * SolarUnit, RAND_MAX)
        angle == RandAngle(RandAt(rs, 2))
        verticalOffset == RoundDiv(RandAt(rs, 3) * 20 * SolarUnit, RAND_MAX) - 10 * SolarUnit
    IN  [centerX |-> TimesCos(radius, angle),
         centerY |-> verticalOffset,
         centerZ |-> TimesSin(radius, angle),
         isGenerated |-> TRUE]

generateSolarSystem ==
    /\ hung = "none"
    /\ nGenerations < MaxGenerations
    /\ LET centre == SolarCentre(randState)
           s == [x |-> centre.centerX, y |-> centre.centerY, z |-> centre.centerZ,
                 radius |-> 2 * SolarUnit]
       IN  /\ solarSystem' = centre
           /\ sun' = s
           /\ planets' = PushPlanets(ClearPlanets(planets), 1, s, randState)
    /\ randState' = RandAt(randState, 3 + NUM_PLANETS)
    /\ nGenerations' = nGenerations + 1
    /\ lastCall' = "generateSolarSystem"
    /\ UNCHANGED <<starVars, bhVars, mainVars, lastDt, hung, nUpdates, probe>>

\* The position update that forgets the sun (a planet orbiting the origin).
UpdatePlanetAboutOrigin(p, s, dt) ==
    LET a == WrapAngle(p.angle + RoundDiv(p.orbitalSpeed * dt, AvScaleD))
    IN  [p EXCEPT !.angle = a,
                  !.x = TimesCos(p.orbitRadius, a),
                  !.z = TimesSin(p.orbitRadius, a)]

\* The loop body of updatePlanets for one planet.
UpdatePlanet(p, s, dt) ==
    LET a == WrapAngle(p.angle + RoundDiv(p.orbitalSpeed * dt, AvScaleD))
    IN  [p EXCEPT !.angle = a,
                  !.x = PlanetX(s, p.orbitRadius, a),
                  !.z = PlanetZ(s, p.orbitRadius, a)]

updatePlanets ==
    /\ hung = "none"
    /\ nUpdates < MaxUpdates
    /\ \E dt \in DeltaTimes :
        /\ planets' = [k \in 1..Len(planets) |-> UpdatePlanet(planets[k], sun, dt)]
        /\ lastDt' = dt
    /\ nUpdates' = nUpdates + 1
    /\ lastCall' = "updatePlanets"
    /\ UNCHANGED <<starVars, bhVars, mainVars, solarSystem, sun, randState, hung,
                   nGenerations, probe>>

\* SolarSystem solarSystem = {0,0,0,false}; Sun sun = {0,0,0,2.0}; planets empty.
InitCommon ==
    /\ stars = <<>>
    /\ genPc = "idle"
    /\ genI = 0
    /\ rng = 0
    /\ rejections = 0
    /\ draws = <<>>
    /\ blackHoles = <<>>
    /\ solarSystem = [centerX |-> 0, centerY |-> 0, centerZ |-> 0, isGenerated |-> FALSE]
    /\ sun = [x |-> 0, y |-> 0, z |-> 0, radius |-> 2 * SolarUnit]
    /\ planets = <<>>
    /\ lastCall = "none"
    /\ lastDt = 0
    /\ hung = "none"
    /\ nGenerations = 0
    /\ nUpdates = 0
    /\ mainPc = "start"
    /\ frameLog = <<>>

\* createDefaultGalaxyConfig: diskRadius and bulgeRadius, in length units.
DefaultDiskRadius == 800
DefaultBulgeRadius == 150

\* The default configuration, asked for no star.
NoGalaxyConfig ==
    [numStars |-> 0, numSpiralArms |-> 2, spiralTightness |-> 3, armWidth |-> 60,
     diskRadius |-> DefaultDiskRadius, bulgeRadius |-> DefaultBulgeRadius,
     diskHeight |-> 50, armDensityBoost |-> 10, seed |-> 0, rotationSpeed |-> 1000]

\* A caller that has made no black-hole configuration.
NoBlackHoleConfig ==
    [enableSupermassive |-> FALSE, numStellarBlackHoles |-> 0,
     stellarBlackHoleFraction |-> 0, seed |-> 0]

\* No sampler study is under way.
NoProbe ==
    [u |-> 0, diskScale |-> 0, scale |-> 1, star |-> 0, entered |-> 0, exit |-> "none",
     blackHole |-> 0]

InitSolar ==
    /\ InitCommon
    /\ randState \in 0..RAND_MAX
    /\ bhConfig = NoBlackHoleConfig
    /\ galaxyConfig = NoGalaxyConfig
    /\ probe = NoProbe

NextSolar == generateSolarSystem \/ updatePlanets

SpecSolar == InitSolar /\ [][NextSolar]_vars

(***************************************************************************)
(* Black holes (BlackHole.h and the second half of main.cpp).              *)
(***************************************************************************)
VISUAL_SCALE_FACTOR == 3

SUPERMASSIVE_MASS == 4300000

\* calculateSchwarzschildRadius: 2.95f * solarMasses, in 1/100 km.
calculateSchwarzschildRadius(solarMasses) == 295 * solarMasses

\* rsKm * KM_TO_SIM_UNITS * VISUAL_SCALE_FACTOR in units of KM_TO_SIM_UNITS
\* (1e-8 length units).
EventHorizonRadius(mass) ==
    MulDiv(calculateSchwarzschildRadius(mass), VISUAL_SCALE_FACTOR, 100)

\* The body built by the if (config.enableSupermassive) block.
SupermassiveBody ==
    LET horizon == EventHorizonRadius(SUPERMASSIVE_MASS)
    IN  [type |-> "SUPERMASSIVE", x |-> 0, y |-> 0, z |-> 0,
         mass |-> SUPERMASSIVE_MASS,
         eventHorizonRadius |-> horizon,
         accretionDiskInnerRadius |-> horizon * 3,
         accretionDiskOuterRadius |-> horizon * 20,
         hasAccretionDisk |-> TRUE,
         diskRotationAngle |-> 0,
         diskRotationSpeed |-> RadToSteps(500),
         radius |-> 0, angle |-> 0, angularVelocity |-> 0]

\* The generator that emits no central body.
NoSupermassive(config) == <<>>

\* blackHoles.clear(); if (config.enableSupermassive) { ... push_back(smbh); }
SupermassivePart(config) ==
    IF config.enableSupermassive THEN <<SupermassiveBody>> ELSE <<>>

\* 0.3f / (bulgeRadius + 1.0f)
BulgeAngularVelocity(speed, bulgeRadius) == RoundDiv(RadToSteps(speed), bulgeRadius + 1)

\* speed / (sqrt(radius / bulgeRadius) * (radius + 1.0f)): a division by
\* zero, hence an infinity, for radius 0.
DiskAngularVelocity(speed, radius, bulgeRadius) ==
    LET root == ISqrt(MulDiv(radius, Fx, bulgeRadius))
        denom == root * (radius + 1)
    IN  IF denom = 0 THEN INF ELSE RoundDiv(RadToSteps(speed) * 1000, denom)

\* The point of the sphere of radius bulgeRadius drawn from three uniform
\* variates, with the polar state derived from it.
BulgePlacement(uTheta, uPhi, uRadius, bulgeRadius) ==
    LET theta == UniformAngle(uTheta)
        phi == Acos(2 * uPhi - Fx)
        radius == RoundDiv(Cbrt1000(uRadius) * bulgeRadius, 1000)
        x == TimesCos(TimesSin(radius, phi), theta)
        y == TimesSin(TimesSin(radius, phi), theta)
        z == TimesCos(radius, phi)
    IN  [x |-> x, y |-> y, z |-> z,
         radius |-> SqrtNearest(x * x + z * z),
         angle |-> Atan2(z, x)]

\* -diskScale * log(1.0f - u + 1e-8f): the 1e-8 is below the resolution.
ExponentialRadius(u, diskScale) == MulDiv(diskScale, 0 - Ln(Fx - u), Fx)

\* The body of the stellar loop from engine state s: <<body, engine after>>.
StellarBody(s, config, diskRadius, bulgeRadius) ==
    LET massRoll == Dist(s, 1)
        mass == 5 + RoundDiv(FxMul(massRoll, massRoll) * 95, Fx)
        horizon == EventHorizonRadius(mass)
        hasDisk == Dist(s, 2) < config.stellarBlackHoleFraction
        s3 == RngAfter(s, IF hasDisk THEN 3 ELSE 2)
        speed == IF hasDisk THEN RadToSteps(2000 + (Dist(s, 3) * 3) \div 1000) ELSE 0
        phase == UniformAngle(Dist(s3, 1))
        inBulge == Dist(s3, 2) < 200000
        physical == [type |-> "STELLAR",
                     mass |-> mass,
                     eventHorizonRadius |-> horizon,
                     accretionDiskInnerRadius |-> IF hasDisk THEN horizon * 3 ELSE 0,
                     accretionDiskOuterRadius |-> IF hasDisk THEN horizon * 15 ELSE 0,
                     hasAccretionDisk |-> hasDisk,
                     diskRotationAngle |-> phase,
                     diskRotationSpeed |-> speed]
        placed ==
            IF inBulge
            THEN LET b == BulgePlacement(Dist(s3, 3), Dist(s3, 4), Dist(s3, 5), bulgeRadius)
                 IN  [x |-> b.x, y |-> b.y, z |-> b.z, radius |-> b.radius,
                      angle |-> b.angle,
                      angularVelocity |-> BulgeAngularVelocity(300, bulgeRadius)]
            ELSE LET diskScale == diskRadius \div 4
                     sampled == ExponentialRadius(Dist(s3, 3), diskScale)
                     radius == IF sampled > (diskRadius * 3) \div 2
                               THEN (diskRadius * 3) \div 2 ELSE sampled
                     theta == UniformAngle(Dist(s3, 4))
                 IN  [x |-> TimesCos(radius, theta),
                      y |-> NormalDist(s3, 5) * 3,
                      z |-> TimesSin(radius, theta),
                      radius |-> radius,
                      angle |-> theta,
                      angularVelocity |-> DiskAngularVelocity(500, radius, bulgeRadius)]
    IN  <<[type |-> physical.type,
           x |-> placed.x, y |-> placed.y, z |-> placed.z,
           mass |-> physical.mass,
           eventHorizonRadius |-> physical.eventHorizonRadius,
           accretionDiskInnerRadius |-> physical.accretionDiskInnerRadius,
           accretionDiskOuterRadius |-> physical.accretionDiskOuterRadius,
           hasAccretionDisk |-> physical.hasAccretionDisk,
           diskRotationAngle |-> physical.diskRotationAngle,
           diskRotationSpeed |-> physical.diskRotationSpeed,
           radius |-> placed.radius, angle |-> placed.angle,
           angularVelocity |-> placed.angularVelocity],
          RngAfter(s3, 5)>>

\* for (int i = 0; i < config.numStellarBlackHoles; i++) { ... push_back(bh); }
RECURSIVE StellarPart(_, _, _, _, _, _)
StellarPart(bhs, i, s, config, diskRadius, bulgeRadius) ==
    IF i >= config.numStellarBlackHoles THEN bhs
    ELSE LET made == StellarBody(s, config, diskRadius, bulgeRadius)
         IN  StellarPart(Append(bhs, made[1]), i + 1, made[2], config,
                         diskRadius, bulgeRadius)

\* The BlackHoleConfig values the generator is called with.
BlackHoleConfigs ==
    [enableSupermassive : BOOLEAN,
     numStellarBlackHoles : 0..MaxBlackHoles,
     stellarBlackHoleFraction : {Fx \div 2, Fx},
     seed : Seeds]

\* generateBlackHoles(blackHoles, config, seed, diskRadius, bulgeRadius) with
\* the caller's configuration and seed.
generateBlackHoles ==
    /\ hung = "none"
    /\ nGenerations < MaxGenerations
    /\ blackHoles' = StellarPart(SupermassivePart(bhConfig), 0, RngSeed(bhConfig.seed),
                                 bhConfig, DefaultDiskRadius, DefaultBulgeRadius)
    /\ nGenerations' = nGenerations + 1
    /\ lastCall' = "generateBlackHoles"
    /\ UNCHANGED <<starVars, bhConfig, solarVars, mainVars, lastDt, hung, nUpdates, probe>>

\* The first statement of the loop body of updateBlackHoles: the accretion
\* disk's phase, wrapped from above only.
AdvanceDisk(bh, dt) ==
    IF bh.hasAccretionDisk
    THEN [bh EXCEPT !.diskRotationAngle =
            WrapAbove(bh.diskRotationAngle + RoundDiv(bh.diskRotationSpeed * dt, AvScale))]
    ELSE bh

\* An orbit step taken by every body at the speed of its disk.
AdvanceOrbitWithDisk(bh, dt) ==
    LET a == NormalizeAngle(Advance(bh.angle, bh.diskRotationSpeed, dt))
    IN  [bh EXCEPT !.angle = a,
                   !.x = TimesCos(bh.radius, a),
                   !.z = TimesSin(bh.radius, a)]

\* The second statement: the orbit of a stellar body.
AdvanceOrbit(bh, dt) ==
    IF bh.type = "STELLAR"
    THEN LET a == NormalizeAngle(Advance(bh.angle, bh.angularVelocity, dt))
         IN  [bh EXCEPT !.angle = a,
                        !.x = TimesCos(bh.radius, a),
                        !.z = TimesSin(bh.radius, a)]
    ELSE bh

\* The loop body of updateBlackHoles for one body.
UpdateBlackHole(bh, dt) == AdvanceOrbit(AdvanceDisk(bh, dt), dt)

\* A normalisation loop never ends on an infinite angle.
SpinsForever(angle, angularVelocity, dt) == Advance(angle, angularVelocity, dt) = INF

\* The bodies on which updateBlackHoles(dt) would loop forever.
BlackHolesSpinning(bhs, dt) ==
    {k \in 1..Len(bhs) :
        bhs[k].type = "STELLAR" /\ SpinsForever(bhs[k].angle, bhs[k].angularVelocity, dt)}

SetMin(S) == CHOOSE m \in S : \A n \in S : m <= n

\* updateBlackHoles(blackHoles, dt): bodies are updated in order; the call
\* does not return when a body's angle becomes infinite.
updateBlackHoles ==
    /\ hung = "none"
    /\ nUpdates < MaxUpdates
    /\ \E dt \in DeltaTimes :
        LET stuck == BlackHolesSpinning(blackHoles, dt)
            upTo == IF stuck = {} THEN Len(blackHoles) ELSE SetMin(stuck) - 1
        IN  /\ blackHoles' = [k \in 1..Len(blackHoles) |->
                    IF k <= upTo THEN UpdateBlackHole(blackHoles[k], dt)
                    ELSE IF k = upTo + 1
                    THEN [AdvanceDisk(blackHoles[k], dt) EXCEPT !.angle = INF]
                    ELSE blackHoles[k]]
            /\ hung' = IF stuck = {} THEN "none" ELSE "updateBlackHoles"
            /\ lastDt' = dt
    /\ nUpdates' = nUpdates + 1
    /\ lastCall' = "updateBlackHoles"
    /\ UNCHANGED <<starVars, bhConfig, solarVars, mainVars, nGenerations, probe>>

\* One more turn of a loop whose condition stays true: nothing changes.
spin ==
    /\ hung # "none"
    /\ UNCHANGED vars

InitBlackHoles ==
    /\ InitCommon
    /\ randState = 0
    /\ bhConfig \in BlackHoleConfigs
    /\ galaxyConfig = NoGalaxyConfig
    /\ probe = NoProbe

NextBlackHoles == generateBlackHoles \/ updateBlackHoles \/ spin

SpecBlackHoles == InitBlackHoles /\ [][NextBlackHoles]_vars

(***************************************************************************)
(* The radial samplers of the two generators.  Lengths here are whole      *)
(* numbers of 1/scale length units, so that the same routine serves the    *)
(* generator (scale 1) and a finer study of the sampler itself.            *)
(***************************************************************************)
NEWTON_ITERATIONS == 10

\* t = r / diskScale; exp(-t) is below the resolution from t = 15 on, and
\* every larger t stands for 20.
ScaledRadius(r, diskScale) ==
    IF r \div 20 >= diskScale THEN 20 * Fx ELSE MulDiv(r, Fx, diskScale)

\* F(r) = 1 - (1 + t) * exp(-t)
DiskCdf(r, diskScale) ==
    LET t == ScaledRadius(r, diskScale)
    IN  Fx - FxMul(Fx + t, ExpNeg(t))

\* dFdr * diskScale at radius r, in Fx.
DiskSlope(r, diskScale) ==
    IF r = 0 THEN 0 ELSE FxMul(ScaledRadius(r, diskScale), ExpNeg(ScaledRadius(r, diskScale)))

\* 1e-12f * diskScale, in Fx, for a diskScale in 1/scale units.
SlopeFloor(diskScale, scale) == diskScale \div (scale * Fx)

\* it <= 10: a loop of one iteration more.
OneMoreIteration(it) == it <= NEWTON_ITERATIONS

\* it < 10
WithinIterations(it) == it < NEWTON_ITERATIONS

\* The for (it...) loop of sampleExponentialDiskRadius from iteration it:
\* the radius returned, the iterations entered and the way out.
RECURSIVE NewtonRun(_, _, _, _, _)
NewtonRun(r, u, diskScale, scale, it) ==
    IF ~WithinIterations(it) THEN [r |-> r, entered |-> it, exit |-> "limit"]
    ELSE LET G == DiskCdf(r, diskScale) - u
             slope == DiskSlope(r, diskScale)
         IN  IF Abs(G) < 1 THEN [r |-> r, entered |-> it + 1, exit |-> "converged"]
             ELSE IF slope <= SlopeFloor(diskScale, scale)
             THEN [r |-> r, entered |-> it + 1, exit |-> "flat"]
             ELSE LET delta == SMulDiv(G, diskScale, slope)
                  IN  IF r - delta < 0
                      THEN [r |-> 0, entered |-> it + 1, exit |-> "negative"]
                      ELSE NewtonRun(r - delta, u, diskScale, scale, it + 1)

NewtonIterate(r, u, diskScale, scale, it) == NewtonRun(r, u, diskScale, scale, it).r

\* The run of the loop on the variate u.
sampleRun(u, diskScale, scale) ==
    NewtonRun(ExponentialRadius(u, diskScale), u, diskScale, scale, 0)

\* The lambda of generateStarField on the variate u it draws.
sampleExponentialDiskRadius(u, diskScale, scale) ==
    NewtonIterate(ExponentialRadius(u, diskScale), u, diskScale, scale, 0)

\* The radius of the disk branch of generateBlackHoles on the variate u.
blackHoleDiskRadius(u, diskScale) == ExponentialRadius(u, diskScale)

\* Resolution of the lengths of the sampler study: 1/100 unit.
FineScale == 10 * 10

\* The variates and scale lengths the samplers are compared on.
ProbeVariates == {Dist(s, 0) : s \in Seeds}
ProbeScales == {100 * FineScale, 200 * FineScale, 300 * FineScale}

\* A disk of radius 1e9 units (diskScale 2.5e8, lengths in whole units) and
\* variates of a few ten-thousandths.
WideScale == 250 * Fx
SmallVariates == {k * (Fx \div 10000) : k \in 2..8}

NotSampled == 0 - 1

sampleStar ==
    /\ probe.star = NotSampled
    /\ \E run \in {sampleRun(probe.u, probe.diskScale, probe.scale)} :
        probe' = [probe EXCEPT !.star = run.r, !.entered = run.entered, !.exit = run.exit]
    /\ lastCall' = "sampleExponentialDiskRadius"
    /\ UNCHANGED <<starVars, bhVars, solarVars, mainVars, lastDt, hung, nGenerations,
                   nUpdates>>

sampleBlackHole ==
    /\ probe.blackHole = NotSampled
    /\ probe' = [probe EXCEPT !.blackHole = blackHoleDiskRadius(probe.u, probe.diskScale)]
    /\ lastCall' = "blackHoleDiskRadius"
    /\ UNCHANGED <<starVars, bhVars, solarVars, mainVars, lastDt, hung, nGenerations,
                   nUpdates>>

InitSampler ==
    /\ InitCommon
    /\ randState = 0
    /\ bhConfig = NoBlackHoleConfig
    /\ galaxyConfig = NoGalaxyConfig
    /\ \E u \in ProbeVariates \cup SmallVariates,
          diskScale \in ProbeScales \cup {WideScale} :
        probe = [u |-> u, diskScale |-> diskScale,
                 scale |-> IF diskScale = WideScale THEN 1 ELSE FineScale,
                 star |-> NotSampled, entered |-> 0, exit |-> "none",
                 blackHole |-> NotSampled]

NextSampler == sampleStar \/ sampleBlackHole

SpecSampler == InitSampler /\ [][NextSampler]_vars

(***************************************************************************)
(* The star field (Stars.cpp).  Lengths are whole length units, angles of  *)
(* the spiral-arm test are milliradians.                                   *)
(***************************************************************************)
PiMilli == 3142

\* An angle in steps as milliradians.
StepsToMilliRad(a) == RoundDiv(a * PiMilli, PI)

\* starTypes[]: colour in tenths, cumulative probability in hundredths as
\* the walk accumulates it.
starTypes ==
    <<[r |-> 6, g |-> 7, b |-> 10, cumulative |-> 5],
      [r |-> 7, g |-> 8, b |-> 10, cumulative |-> 15],
      [r |-> 9, g |-> 9, b |-> 10, cumulative |-> 30],
      [r |-> 10, g |-> 10, b |-> 9, cumulative |-> 50],
      [r |-> 10, g |-> 10, b |-> 7, cumulative |-> 75],
      [r |-> 10, g |-> 8, b |-> 6, cumulative |-> 90],
      [r |-> 10, g |-> 6, b |-> 5, cumulative |-> 100]>>

\* A test that lets a roll equal to the cumulative weight pass on.
RollBelow(typeRoll, cumulative) == typeRoll < cumulative

\* if (typeRoll <= cumulative)
RollWithin(typeRoll, cumulative) == typeRoll <= cumulative

\* for (t...) if (typeRoll <= cumulative) { selectedType = t; break; }, with
\* the default of 6 (index 7 here) when no test succeeds.
RECURSIVE SelectType(_, _)
SelectType(typeRoll, t) ==
    IF t > Len(starTypes) THEN Len(starTypes)
    ELSE IF RollWithin(typeRoll, starTypes[t].cumulative * (Fx \div 100)) THEN t
    ELSE SelectType(typeRoll, t + 1)

\* while (angleDiff > M_PI) angleDiff -= 2*M_PI;
RECURSIVE DownToPi(_)
DownToPi(d) == IF d > PiMilli THEN DownToPi(d - 2 * PiMilli) ELSE d

\* while (angleDiff < -M_PI) angleDiff += 2*M_PI;
RECURSIVE UpToMinusPi(_)
UpToMinusPi(d) == IF d < 0 - PiMilli THEN UpToMinusPi(d + 2 * PiMilli) ELSE d

\* log(radius / bulgeRadius) / spiralTightness + armOffset, in milliradians,
\* for radius > 0; spiralTightness is in tenths.
SpiralTheta(radius, arm, config) ==
    LET ratio == MulDiv(radius, Fx, config.bulgeRadius)
    IN  (Ln(ratio) \div (100 * config.spiralTightness))
        + RoundDiv(arm * 2 * PiMilli, config.numSpiralArms)

\* fabs(angleDiff * radius) for one arm.
ArmDistance(radius, theta, arm, config) ==
    LET angleDiff == UpToMinusPi(DownToPi(StepsToMilliRad(theta)
                                          - SpiralTheta(radius, arm, config)))
    IN  RoundDiv(Abs(angleDiff) * radius, 1000)

\* The for (arm...) loop from arm on: the least arm distance, starting from
\* the running minimum.
RECURSIVE MinArmDistance(_, _, _, _, _)
MinArmDistance(radius, theta, arm, running, config) ==
    IF arm >= config.numSpiralArms THEN running
    ELSE MinArmDistance(radius, theta, arm + 1,
                        Min(running, ArmDistance(radius, theta, arm, config)), config)

\* 1e10f, the initial minArmDistance: above every distance of the disk.
FarAway == 1000 * 1000

\* exp(-d * d / (width * width)) for a width in length units; from four
\* widths on (the never lowered 1e10f included) it is below the resolution.
Proximity(d, width) ==
    IF d >= 4 * width THEN 0 ELSE ExpNeg(MulDiv(d * d, Fx, width * width))

\* (1 + armProximity * boost) / (1 + boost), a fifth of it between the arms.
AcceptProbability(armProximity, config) ==
    LET base == (Fx + armProximity * config.armDensityBoost)
                    \div (1 + config.armDensityBoost)
    IN  IF armProximity < 300000 THEN base \div 5 ELSE base

\* The colour of the type chosen by typeRoll.
Coloured(star, typeRoll) ==
    LET type == starTypes[SelectType(typeRoll, 1)]
    IN  [star EXCEPT !.r = type.r, !.g = type.g, !.b = type.b]

\* The brightness block: dim inside the bulge radius, else brighter and
\* boosted near an arm, capped at 1.
Brightened(star, u, config) ==
    LET distFromCenter == SqrtNearest(star.x * star.x + star.y * star.y + star.z * star.z)
    IN  IF distFromCenter < config.bulgeRadius
        THEN [star EXCEPT !.brightness = 400000 + (u * 4) \div 10]
        ELSE LET minArmDist == MinArmDistance(star.radius, star.angle, 0, FarAway, config)
                 armBrightness == Proximity(minArmDist, 2 * config.armWidth)
                 total == 300000 + (u * 7) \div 10 + (armBrightness * 3) \div 10
             IN  [star EXCEPT !.brightness = Min(total, Fx)]

NoColour == [r |-> 0, g |-> 0, b |-> 0, brightness |-> 0]

\* The bulge branch on engine state s (the inBulge draw already made).
BulgeStar(s, config) ==
    LET b == BulgePlacement(Dist(s, 1), Dist(s, 2), Dist(s, 3), config.bulgeRadius)
    IN  [x |-> b.x, y |-> b.y, z |-> b.z, radius |-> b.radius, angle |-> b.angle,
         angularVelocity |->
            BulgeAngularVelocity(config.rotationSpeed \div 2, config.bulgeRadius),
         r |-> 0, g |-> 0, b |-> 0, brightness |-> 0]

\* radius + noise * 0.3f for a normal draw n in tenths and noise = n * 15.
NoisyRadius(radius, n) == radius + RoundDiv(n * 45, 100)

\* The accepted disk star of radius and theta from engine state s, whose
\* next draws are the noise and the height.
DiskStar(s, radius, theta, config) ==
    LET noisy == NoisyRadius(radius, NormalDist(s, 1))
    IN  [x |-> TimesCos(noisy, theta),
         y |-> RoundDiv(NormalDist(s, 2) * (config.diskHeight \div 10)
                            * (2 * config.diskRadius - radius),
                        2 * config.diskRadius),
         z |-> TimesSin(noisy, theta),
         radius |-> radius, angle |-> theta,
         angularVelocity |->
            DiskAngularVelocity(config.rotationSpeed, radius, config.bulgeRadius),
         r |-> 0, g |-> 0, b |-> 0, brightness |-> 0]

\* The sampled radius left as the sampler returned it.
Unclipped(radius, diskRadius) == radius

\* if (radius > diskRadius) radius = diskRadius;
ClipRadius(radius, diskRadius) == Min(radius, diskRadius)

\* The loop index after a rejection if the retry were forgotten.
NextIndex(i) == i + 1

\* i--; continue; followed by the loop's i++.
RetryIndex(i) == (i - 1) + 1

\* bool inBulge = dist(rng) < 0.15f; on engine state s
InBulge(s) == Dist(s, 1) < 150000

\* The draws of a bulge star: inBulge, theta, phi, radius, typeRoll and the
\* brightness variate.
BulgeDraws == <<"branch", "position", "position", "position", "colour", "brightness">>

\* The draws of a disk candidate up to the arm test: inBulge, the sampler's
\* u and theta.
CandidateDraws == <<"branch", "position", "position">>

\* The draws of an accepted disk candidate after the test: the noise of x
\* and z, the height y, typeRoll and the brightness variate.
AcceptedDraws == <<"position", "position", "colour", "brightness">>

\* One pass of the body of the generator's loop from engine state s:
\* what became of the candidate, the star if one was appended, and the
\* engine state afterwards.
Candidate(s, config) ==
    IF InBulge(s)
    THEN LET s1 == RngAfter(s, 1)
             star == BulgeStar(s1, config)
         IN  [outcome |-> "bulge",
              star |-> Brightened(Coloured(star, Dist(s1, 4)), Dist(s1, 5), config),
              rng |-> RngAfter(s1, 5),
              draws |-> BulgeDraws]
    ELSE LET s1 == RngAfter(s, 1)
             sampled == sampleExponentialDiskRadius(Dist(s1, 1), config.diskRadius \div 4, 1)
             radius == ClipRadius(sampled, config.diskRadius)
             theta == UniformAngle(Dist(s1, 2))
         IN  IF radius = 0 /\ config.numSpiralArms > 0
             \* log(0) is -infinity: the first normalising loop never ends.
             THEN [outcome |-> "hang", star |-> NoColour, rng |-> RngAfter(s1, 2),
                   draws |-> CandidateDraws]
             ELSE LET armProximity ==
                          Proximity(MinArmDistance(radius, theta, 0, FarAway, config),
                                    config.armWidth)
                  IN  IF Dist(s1, 3) > AcceptProbability(armProximity, config)
                      THEN [outcome |-> "rejected", star |-> NoColour,
                            rng |-> RngAfter(s1, 3),
                            draws |-> Append(CandidateDraws, "rejection")]
                      ELSE LET s3 == RngAfter(s1, 3)
                               star == DiskStar(s3, radius, theta, config)
                           IN  [outcome |-> "disk",
                                star |-> Brightened(Coloured(star, Dist(s3, 3)),
                                                    Dist(s3, 4), config),
                                rng |-> RngAfter(s3, 4),
                                draws |-> Append(CandidateDraws, "rejection")
                                              \o AcceptedDraws]

\* createDefaultGalaxyConfig with the caller's star count, seed and arm
\* density boost; spiralTightness and diskHeight in tenths, rotationSpeed
\* in thousandths.
GalaxyConfigs ==
    [numStars : 0..MaxStars,
     numSpiralArms : {2},
     spiralTightness : {3},
     armWidth : {60},
     diskRadius : {DefaultDiskRadius},
     bulgeRadius : {DefaultBulgeRadius},
     diskHeight : {50},
     armDensityBoost : {0, 10},
     seed : Seeds,
     rotationSpeed : {1000}]

\* A generator that appends to what the collection held.
KeepStars(ss) == ss

\* stars.clear();
ClearStars(ss) == <<>>

\* generateStarField up to the first test of the loop condition: the
\* engine is seeded and the collection emptied.
EnterGenerator ==
    /\ rng' = RngSeed(galaxyConfig.seed)
    /\ stars' = ClearStars(stars)
    /\ genI' = 0
    /\ rejections' = 0
    /\ draws' = <<>>
    /\ genPc' = "loop"
    /\ nGenerations' = nGenerations + 1
    /\ nUpdates' = 0
    /\ lastDt' = 0
    /\ lastCall' = "generateStarField:enter"

\* A call of generateStarField on a collection that is idle.
generateStarField ==
    /\ hung = "none"
    /\ genPc \in {"idle", "done"}
    /\ nGenerations < MaxGenerations
    /\ EnterGenerator
    /\ UNCHANGED <<galaxyConfig, bhVars, solarVars, mainVars, hung, probe>>

\* A rejection that falls through to stars.push_back(star).
PushBackAnyway(ss, star) == Append(ss, star)

\* continue; (the pass ends before stars.push_back(star))
SkipPushBack(ss, star) == ss

\* One pass of the loop body, entered with i < config.numStars.
starLoopBody ==
    /\ hung = "none"
    /\ genPc = "loop"
    /\ genI < galaxyConfig.numStars
    /\ \E c \in {Candidate(rng, galaxyConfig)} :
           /\ c.outcome = "rejected" => rejections < MaxRejections
           /\ rng' = c.rng
           /\ stars' = IF c.outcome \in {"bulge", "disk"} THEN Append(stars, c.star)
                       ELSE SkipPushBack(stars, c.star)
           /\ genI' = IF c.outcome = "rejected" THEN RetryIndex(genI)
                      ELSE IF c.outcome = "hang" THEN genI
                      ELSE genI + 1
           /\ rejections' = IF c.outcome = "rejected" THEN rejections + 1 ELSE rejections
           /\ draws' = c.draws
           /\ hung' = IF c.outcome = "hang" THEN "generateStarField" ELSE "none"
           /\ lastCall' = "generateStarField:" \o c.outcome
    /\ UNCHANGED <<genPc, galaxyConfig, bhVars, solarVars, mainVars, lastDt, nGenerations,
                   nUpdates, probe>>

\* The loop condition fails: generateStarField returns.
starLoopExit ==
    /\ hung = "none"
    /\ genPc = "loop"
    /\ genI >= galaxyConfig.numStars
    /\ genPc' = "done"
    /\ lastCall' = "generateStarField"
    /\ UNCHANGED <<stars, genI, rng, galaxyConfig, rejections, draws,
                   bhVars, solarVars, mainVars,
                   lastDt, hung, nGenerations, nUpdates, probe>>

\* The loop body of updateStarPositions for one star.
UpdateStar(star, dt) ==
    LET a == NormalizeAngle(Advance(star.angle, star.angularVelocity, dt))
    IN  [star EXCEPT !.angle = a,
                     !.x = TimesCos(star.radius, a),
                     !.z = TimesSin(star.radius, a)]

\* The whole of updateStarPositions(stars, dt).
UpdateStars(dt) ==
    /\ stars' = [k \in 1..Len(stars) |-> UpdateStar(stars[k], dt)]
    /\ lastDt' = dt
    /\ nUpdates' = nUpdates + 1
    /\ lastCall' = "updateStarPositions"

\* updateStarPositions(stars, dt) on a generated field.
updateStarPositions ==
    /\ hung = "none"
    /\ genPc = "done"
    /\ nUpdates < MaxUpdates
    /\ \E dt \in DeltaTimes : UpdateStars(dt)
    /\ UNCHANGED <<genPc, genI, rng, galaxyConfig, rejections, draws,
                   bhVars, solarVars, mainVars,
                   hung, nGenerations, probe>>

InitStars ==
    /\ InitCommon
    /\ galaxyConfig \in GalaxyConfigs
    /\ randState = 0
    /\ bhConfig = NoBlackHoleConfig
    /\ probe = NoProbe

NextStars == generateStarField \/ starLoopBody \/ starLoopExit \/ updateStarPositions \/ spin

SpecStars == InitStars /\ [][NextStars]_vars

\* Configurations the spec calls invalid, as a caller can still build
\* them: no spiral arm, a disk of height 0, or no star.
InvalidGalaxyConfigs ==
    {c \in [numStars : 0..MaxStars,
            numSpiralArms : {0, 2},
            spiralTightness : {3},
            armWidth : {60},
            diskRadius : {DefaultDiskRadius},
            bulgeRadius : {DefaultBulgeRadius},
            diskHeight : {0, 50},
            armDensityBoost : {10},
            seed : Seeds,
            rotationSpeed : {1000}] :
        c.numStars = 0 \/ c.numSpiralArms = 0 \/ c.diskHeight = 0}

InitInvalid ==
    /\ InitCommon
    /\ galaxyConfig \in InvalidGalaxyConfigs
    /\ randState = 0
    /\ bhConfig = NoBlackHoleConfig
    /\ probe = NoProbe

SpecInvalid == InitInvalid /\ [][NextStars]_vars

(***************************************************************************)
(* main(): the generation and the frame loop.  mainPc is the position of   *)
(* main, frameLog the calls of the frame under way.                        *)
(***************************************************************************)
\* currentTime - lastTime of a clock that does not run backwards.
FrameTimes == {dt \in DeltaTimes : dt >= 0}

\* generateStarField(stars, galaxyConfig);
mainGenerate ==
    /\ mainPc = "start"
    /\ EnterGenerator
    /\ mainPc' = "generating"
    /\ UNCHANGED <<galaxyConfig, bhVars, solarVars, frameLog, hung, probe>>

\* The generator has returned: lastTime = glfwGetTime() and the first test
\* of the loop condition.
mainEnterLoop ==
    /\ mainPc = "generating"
    /\ genPc = "done"
    /\ mainPc' = "frame"
    /\ lastCall' = "glfwGetTime"
    /\ UNCHANGED <<starVars, bhVars, solarVars, frameLog, lastDt, hung, nGenerations,
                   nUpdates, probe>>

\* The head of a frame: deltaTime is measured and updateStarPositions
\* called with it.
frameUpdate ==
    /\ mainPc = "frame"
    /\ nUpdates < MaxFrames
    /\ \E dt \in FrameTimes : UpdateStars(dt)
    /\ frameLog' = <<"updateStarPositions">>
    /\ mainPc' = "updated"
    /\ UNCHANGED <<genPc, genI, rng, galaxyConfig, rejections, draws,
                   bhVars, solarVars, hung,
                   nGenerations, probe>>

\* processInput, render(stars, camera), the buffer swap and the event poll.
frameRender ==
    /\ mainPc = "updated"
    /\ frameLog' = Append(frameLog, "render")
    /\ mainPc' = "frame"
    /\ lastCall' = "render"
    /\ UNCHANGED <<starVars, bhVars, solarVars, lastDt, hung, nGenerations, nUpdates,
                   probe>>

\* glfwWindowShouldClose(window): cleanup and return.
mainExit ==
    /\ mainPc = "frame"
    /\ mainPc' = "exit"
    /\ lastCall' = "cleanup"
    /\ UNCHANGED <<starVars, bhVars, solarVars, frameLog, lastDt, hung, nGenerations,
                   nUpdates, probe>>

InitMain == InitStars

NextMain ==
    \/ mainGenerate
    \/ starLoopBody
    \/ starLoopExit
    \/ mainEnterLoop
    \/ frameUpdate
    \/ frameRender
    \/ mainExit
    \/ spin

SpecMain == InitMain /\ [][NextMain]_vars

(***************************************************************************)
(* The three subsystems side by side: a caller that may run any generator  *)
(* or integrator next, each on its own collection.                         *)
(***************************************************************************)
\* A few seeds of the engine.
PipelineSeeds == {s \in Seeds : s % 16 = 3}

InitPipeline ==
    /\ InitCommon
    /\ galaxyConfig \in {c \in GalaxyConfigs :
            c.numStars = MaxStars - 1 /\ c.armDensityBoost = 10 /\ c.seed \in PipelineSeeds}
    /\ bhConfig \in {c \in BlackHoleConfigs :
            /\ c.enableSupermassive
            /\ c.numStellarBlackHoles = 1
            /\ c.stellarBlackHoleFraction = Fx \div 2
            /\ c.seed \in PipelineSeeds}
    /\ randState = 1
    /\ probe = NoProbe

\* The caller is one thread: nothing else runs while generateStarField is
\* in its loop.
NextPipeline ==
    \/ generateStarField
    \/ starLoopBody
    \/ starLoopExit
    \/ updateStarPositions
    \/ (genPc # "loop" /\ generateBlackHoles)
    \/ (genPc # "loop" /\ updateBlackHoles)
    \/ (genPc # "loop" /\ generateSolarSystem)

SpecPipeline == InitPipeline /\ [][NextPipeline]_vars

(***************************************************************************)
(* Claims about the solar subsystem.                                       *)
(***************************************************************************)
PlanetAtSun(p) ==
    /\ p.x = sun.x + RoundDiv(p.orbitRadius * Cos5(p.angle), 5)
    /\ p.y = sun.y
    /\ p.z = sun.z + RoundDiv(p.orbitRadius * Sin5(p.angle), 5)

OrbitRadii(ps) == [k \in 1..Len(ps) |-> ps[k].orbitRadius]

\* C9: after generateSolarSystem and after every updatePlanets call each
\* planet sits at sun + orbitRadius * (cos(angle), 0, sin(angle)) for the sun
\* of that state, and updatePlanets changes no planet's orbitRadius or y.
C9_PlanetsRelativeToCurrentSun ==
    /\ [](\A k \in 1..Len(planets) : PlanetAtSun(planets[k]))
    /\ [][lastCall' = "updatePlanets" =>
            /\ Len(planets') = Len(planets)
            /\ \A k \in 1..Len(planets) :
                /\ planets'[k].orbitRadius = planets[k].orbitRadius
                /\ planets'[k].y = planets[k].y]_vars

\* A generated subsystem away from the origin whose planets an update with
\* a non-zero deltaTime has moved.
C9_Witness ==
    /\ solarSystem.isGenerated
    /\ lastCall = "updatePlanets"
    /\ lastDt = 300
    /\ sun.x # 0
    /\ sun.z # 0
    /\ planets[1].x # sun.x + planets[1].orbitRadius

\* C10: once generateSolarSystem has run, however often, there are exactly
\* NUM_PLANETS planets in strictly increasing orbitRadius order around the one
\* sun at the subsystem centre, isGenerated is true and stays true, and
\* updatePlanets changes neither the number nor the order of the planets.
C10_OneSunEightOrderedPlanets ==
    /\ [](nGenerations > 0 =>
            /\ solarSystem.isGenerated
            /\ Len(planets) = NUM_PLANETS
            /\ \A k \in 1..(Len(planets) - 1) :
                planets[k].orbitRadius < planets[k + 1].orbitRadius
            /\ sun = [x |-> solarSystem.centerX, y |-> solarSystem.centerY,
                      z |-> solarSystem.centerZ, radius |-> 2 * SolarUnit])
    /\ [][solarSystem.isGenerated => solarSystem'.isGenerated]_vars
    /\ [][lastCall' = "updatePlanets" => OrbitRadii(planets') = OrbitRadii(planets)]_vars

\* The subsystem was generated twice and then advanced.
C10_Witness ==
    /\ nGenerations = 2
    /\ lastCall = "updatePlanets"
    /\ Len(planets) = NUM_PLANETS

\* What generateBlackHoles must have built from the caller's configuration.
ExpectedBlackHoleCount ==
    (IF bhConfig.enableSupermassive THEN 1 ELSE 0) + bhConfig.numStellarBlackHoles

\* C2: right after generateBlackHoles the collection holds exactly
\* (enableSupermassive ? 1 : 0) + numStellarBlackHoles bodies (none for
\* false and 0); with enableSupermassive the first body, and only it, is
\* SUPERMASSIVE, with an accretion disk and mass 4.3e6; every other body is
\* STELLAR.
C2_BlackHoleCountAndSupermassiveFirst ==
    lastCall = "generateBlackHoles" =>
        /\ Len(blackHoles) = ExpectedBlackHoleCount
        /\ bhConfig.enableSupermassive =>
            /\ blackHoles[1].type = "SUPERMASSIVE"
            /\ blackHoles[1].hasAccretionDisk
            /\ blackHoles[1].mass = 4300000
        /\ \A k \in 1..Len(blackHoles) :
            (k > 1 \/ ~bhConfig.enableSupermassive) => blackHoles[k].type = "STELLAR"

C2_Witness ==
    /\ lastCall = "generateBlackHoles"
    /\ bhConfig.enableSupermassive
    /\ bhConfig.numStellarBlackHoles = MaxBlackHoles
    /\ Len(blackHoles) = MaxBlackHoles + 1

\* The fields of a black hole an integrator step must leave alone.
BlackHoleFrame(bh) ==
    <<bh.radius, bh.angularVelocity, bh.y, bh.mass, bh.eventHorizonRadius,
      bh.accretionDiskInnerRadius, bh.accretionDiskOuterRadius>>

\* sqrt(x*x + z*z) gives back the stored radius, to the rounding of the
\* coordinates.
RadiusRecovered(b) ==
    /\ IsFinite(b.x)
    /\ IsFinite(b.z)
    /\ Abs(Hypot(b.x, b.z) - b.radius) <= 1

\* C5: an integrator step leaves radius, angularVelocity, y, mass, horizon
\* and disk radii of every black hole unchanged, and the radius recovered
\* from the new x and z of an advanced body equals its stored radius.
C5_StepChangesOnlyAngleAndPosition ==
    [][lastCall' = "updateBlackHoles" /\ hung' = "none" =>
        /\ Len(blackHoles') = Len(blackHoles)
        /\ \A k \in 1..Len(blackHoles) :
            /\ BlackHoleFrame(blackHoles'[k]) = BlackHoleFrame(blackHoles[k])
            /\ blackHoles[k].type = "STELLAR" => RadiusRecovered(blackHoles'[k])]_vars

\* C8: after any updateBlackHoles call every accretion-disk phase is in
\* [0, 2*pi), also when the step made it negative.
C8_DiskPhaseWrapped ==
    lastCall = "updateBlackHoles" =>
        \A k \in 1..Len(blackHoles) :
            blackHoles[k].hasAccretionDisk =>
                /\ 0 <= blackHoles[k].diskRotationAngle
                /\ blackHoles[k].diskRotationAngle < TwoPi

\* C6: on every variate u and scale length rd the disk radius of
\* generateBlackHoles equals the radius sampleExponentialDiskRadius returns.
C6_SamplersAgree ==
    (probe.star # NotSampled /\ probe.blackHole # NotSampled) =>
        probe.star = probe.blackHole

\* C1: when generateStarField has returned the collection holds exactly
\* config.numStars stars (none for numStars = 0) whatever the arm density
\* boost, and a rejected candidate adds no star and uses up no index.
C1_ExactlyNumStars ==
    /\ [](genPc = "done" => Len(stars) = galaxyConfig.numStars)
    /\ [][lastCall' = "generateStarField:rejected" =>
            (stars' = stars /\ genI' = genI)]_vars

C1_Witness ==
    /\ genPc = "done"
    /\ rejections > 0
    /\ galaxyConfig.numStars = MaxStars
    /\ Len(stars) = MaxStars

\* x = radius*cos(angle) and z = radius*sin(angle) for one body.
OnItsCircle(b) ==
    /\ b.x = TimesCos(b.radius, b.angle)
    /\ b.z = TimesSin(b.radius, b.angle)

\* C3: after any call of updateStarPositions, updateBlackHoles or
\* updatePlanets every updated body's angle satisfies 0 <= angle < 2*pi.
C3_AngleInHalfOpenRange ==
    /\ lastCall = "updateStarPositions" =>
        \A k \in 1..Len(stars) : 0 <= stars[k].angle /\ stars[k].angle < TwoPi
    /\ lastCall = "updateBlackHoles" =>
        \A k \in 1..Len(blackHoles) :
            blackHoles[k].type = "STELLAR" =>
                0 <= blackHoles[k].angle /\ blackHoles[k].angle < TwoPi
    /\ lastCall = "updatePlanets" =>
        \A k \in 1..Len(planets) : 0 <= planets[k].angle /\ planets[k].angle < TwoPi

\* C4: in every reachable state every star and every black hole has
\* x = radius*cos(angle) and z = radius*sin(angle).
C4_PositionMatchesPolarState ==
    /\ \A k \in 1..Len(stars) : OnItsCircle(stars[k])
    /\ \A k \in 1..Len(blackHoles) : OnItsCircle(blackHoles[k])

\* The number of calls of f in the frame under way.
CallsInFrame(f) == Cardinality({k \in 1..Len(frameLog) : frameLog[k] = f})

\* C7: in every frame each population's integrator (stars, black holes,
\* planets) has been called exactly once when the render pass runs, and
\* generation has run once before the first frame.
C7_EveryPopulationAdvancedBeforeRender ==
    lastCall = "render" =>
        /\ \A f \in {"updateStarPositions", "updateBlackHoles", "updatePlanets"} :
            CallsInFrame(f) = 1
        /\ frameLog[Len(frameLog)] = "render"
        /\ nGenerations = 1

\* A radius or height that is not positive, no spiral arm or no star.
ConfigurationInvalid(c) ==
    \/ c.diskRadius <= 0
    \/ c.bulgeRadius <= 0
    \/ c.diskHeight <= 0
    \/ c.armWidth <= 0
    \/ c.numSpiralArms = 0
    \/ c.numStars = 0

\* C11: a generator called with an invalid configuration emits no star at
\* all: its collection is empty in every state, never partially filled.
C11_InvalidConfigRejected ==
    ConfigurationInvalid(galaxyConfig) => Len(stars) = 0

\* What the loop of generateStarField makes of an empty collection and a
\* freshly seeded engine: the collection from the state (ss, i, s) on, or
\* <<"none">> when the loop has not ended after the given number of passes.
RECURSIVE LoopResult(_, _, _, _, _)
LoopResult(ss, i, s, config, passes) ==
    IF i >= config.numStars THEN ss
    ELSE IF passes = 0 THEN <<"none">>
    ELSE LET c == Candidate(s, config)
         IN  IF c.outcome = "hang" THEN <<"none">>
             ELSE IF c.outcome = "rejected"
             THEN LoopResult(ss, i, c.rng, config, passes - 1)
             ELSE LoopResult(Append(ss, c.star), i + 1, c.rng, config, passes - 1)

\* The field that depends on nothing but the configuration and its seed.
FieldOf(config) ==
    LoopResult(<<>>, 0, RngSeed(config.seed), config, MaxStars + MaxRejections + 1)

\* The black holes that depend on nothing but the configuration and seed.
BlackHolesOf(config) ==
    StellarPart(SupermassivePart(config), 0, RngSeed(config.seed), config,
                DefaultDiskRadius, DefaultBulgeRadius)

PlanetAngles(ps) == [k \in 1..Len(ps) |-> ps[k].angle]

\* C13: with the configuration seed unchanged, an invocation of
\* generateSolarSystem that directly follows another one yields the same
\* subsystem centre and the same initial planet angles.
C13_SolarSystemFixedBySeed ==
    [][(lastCall = "generateSolarSystem" /\ lastCall' = "generateSolarSystem")
            => /\ solarSystem' = solarSystem
               /\ PlanetAngles(planets') = PlanetAngles(planets)]_vars

\* sqrt(x*x + y*y + z*z) of the stored position.
DistFromCenter(star) == SqrtNearest(star.x * star.x + star.y * star.y + star.z * star.z)

InColourTable(star) ==
    \E t \in 1..Len(starTypes) :
        /\ star.r = starTypes[t].r
        /\ star.g = starTypes[t].g
        /\ star.b = starTypes[t].b

BrightnessInRange(star, config) ==
    /\ star.brightness >= 0
    /\ star.brightness <= Fx
    /\ IF DistFromCenter(star) < config.bulgeRadius
       THEN star.brightness >= 400000 /\ star.brightness <= 800000
       ELSE star.brightness >= 300000 /\ star.brightness <= Fx

\* The collection holds stars exactly as the generator made them.
FreshField ==
    lastCall \in {"generateStarField", "generateStarField:bulge",
                  "generateStarField:disk", "generateStarField:rejected"}

\* C14: a star placed by the disk branch has stored radius <= diskRadius,
\* one placed by the bulge branch has stored radius <= bulgeRadius, and every
\* generated star has a brightness in [0.4, 0.8] when its distance from the
\* origin is below bulgeRadius and in [0.3, 1.0] otherwise, and a colour of
\* the table.
C14_GeneratedStarsInBounds ==
    /\ lastCall = "generateStarField:disk"
            => stars[Len(stars)].radius <= galaxyConfig.diskRadius
    /\ lastCall = "generateStarField:bulge"
            => stars[Len(stars)].radius <= galaxyConfig.bulgeRadius
    /\ FreshField =>
            \A k \in 1..Len(stars) :
                /\ BrightnessInRange(stars[k], galaxyConfig)
                /\ InColourTable(stars[k])

C14_Witness ==
    /\ lastCall = "generateStarField"
    /\ Len(stars) = MaxStars
    /\ \E k \in 1..Len(stars) : stars[k].radius = galaxyConfig.diskRadius
    /\ \E k \in 1..Len(stars) : DistFromCenter(stars[k]) < galaxyConfig.bulgeRadius

\* The tolerance 1e-4 on the distribution function.
CdfTolerance == Fx \div 10000

\* C15: the radius the star sampler returns for the variate u has
\* |F(r) - u| < 1e-4, for every scale length and every variate.
C15_SamplerInvertsCdf ==
    probe.star # NotSampled =>
        Abs(DiskCdf(probe.star, probe.diskScale) - probe.u) < CdfTolerance

(***************************************************************************)
(* The angle wrap in machine arithmetic.  Angles are in units of 2^-25     *)
(* radian; a double holds every such value, a float holds 24 significant   *)
(* bits of it.                                                             *)
(***************************************************************************)
\* 0.5 radian: below it every multiple of the unit is a float.
HalfRadian == 2 ^ 24

\* 2.0f * M_PI and 2.0 * M_PI, both of type double: 6.283185307...
TwoPiDouble == 210828714

\* The distance between neighbouring floats at magnitude m.
RECURSIVE Ulp(_)
Ulp(m) == IF m < HalfRadian THEN 1 ELSE 2 * Ulp(m \div 2)

\* The conversion of a double to float: the nearest float, ties to even.
ToFloat(x) ==
    LET m == Abs(x)
        s == Ulp(m)
        q == m \div s
        rest == m % s
        up == 2 * rest > s \/ (2 * rest = s /\ q % 2 = 1)
    IN  Sign(x) * (IF up THEN q + 1 ELSE q) * s

\* while (star.angle > 2.0f * M_PI) star.angle -= 2.0f * M_PI; on a float
RECURSIVE FloatDown(_)
FloatDown(a) == IF a > TwoPiDouble THEN FloatDown(ToFloat(a - TwoPiDouble)) ELSE a

\* while (star.angle < 0.0f) star.angle += 2.0f * M_PI; on a float
RECURSIVE FloatUp(_)
FloatUp(a) == IF a < 0 THEN FloatUp(ToFloat(a + TwoPiDouble)) ELSE a

\* The two loops of updateStarPositions on the float star.angle.
WrapStarAngle(a) == FloatUp(FloatDown(a))

\* while (planet.angle > 2.0 * M_PI) planet.angle -= 2.0 * M_PI; on a double
RECURSIVE DoubleDown(_)
DoubleDown(a) == IF a > TwoPiDouble THEN DoubleDown(a - TwoPiDouble) ELSE a

\* while (planet.angle < 0.0) planet.angle += 2.0 * M_PI; on a double
RECURSIVE DoubleUp(_)
DoubleUp(a) == IF a < 0 THEN DoubleUp(a + TwoPiDouble) ELSE a

\* The two loops of updatePlanets on the double planet.angle.
WrapPlanetAngle(a) == DoubleUp(DoubleDown(a))

\* Angles next to zero, next to a full turn and in between, up to two turns
\* either way.
NearOffsets == (0 - 12)..12
WrapOffsets ==
    NearOffsets
        \cup {k * TwoPiDouble + d : k \in {0 - 2, 0 - 1, 1, 2}, d \in NearOffsets}
        \cup {(k * TwoPiDouble) \div 8 : k \in 1..7}
FloatAngles == {ToFloat(x) : x \in WrapOffsets}

\* One application of the wrap to the angle under study.
wrapStarAngle ==
    /\ probe.kind = "float"
    /\ probe.calls < 2
    /\ probe' = [probe EXCEPT !.calls = @ + 1,
                              !.once = IF probe.calls = 0 THEN WrapStarAngle(probe.angle)
                                       ELSE @,
                              !.latest = WrapStarAngle(@)]
    /\ lastCall' = "updateStarPositions:wrap"
    /\ UNCHANGED <<starVars, bhVars, solarVars, mainVars, lastDt, hung, nGenerations,
                   nUpdates>>

wrapPlanetAngle ==
    /\ probe.kind = "double"
    /\ probe.calls < 2
    /\ probe' = [probe EXCEPT !.calls = @ + 1,
                              !.once = IF probe.calls = 0 THEN WrapPlanetAngle(probe.angle)
                                       ELSE @,
                              !.latest = WrapPlanetAngle(@)]
    /\ lastCall' = "updatePlanets:wrap"
    /\ UNCHANGED <<starVars, bhVars, solarVars, mainVars, lastDt, hung, nGenerations,
                   nUpdates>>

InitWrap ==
    /\ InitCommon
    /\ randState = 0
    /\ bhConfig = NoBlackHoleConfig
    /\ galaxyConfig = NoGalaxyConfig
    /\ \E a \in FloatAngles, kind \in {"float", "double"} :
        probe = [kind |-> kind, angle |-> a, calls |-> 0, once |-> a, latest |-> a]

NextWrap == wrapStarAngle \/ wrapPlanetAngle

SpecWrap == InitWrap /\ [][NextWrap]_vars

\* C16: the wrap leaves an angle of [0, 2*pi) as it is, and a second
\* application of the wrap returns what the first one returned.
C16_WrapIdempotent ==
    /\ (probe.calls >= 1 /\ probe.angle >= 0 /\ probe.angle < TwoPiDouble)
            => probe.once = probe.angle
    /\ probe.calls = 2 => probe.latest = probe.once

\* C17: no pass of the generation loop stays for ever in a loop that
\* normalises the angle difference to an arm, so that generateStarField
\* can run to its end.
C17_EveryCandidateCompletes ==
    hung # "generateStarField"

\* The place of a kind of draw in the order branch, position, rejection,
\* colour, brightness.
DrawRank(kind) ==
    CASE kind = "branch" -> 1
      [] kind = "position" -> 2
      [] kind = "rejection" -> 3
      [] kind = "colour" -> 4
      [] kind = "brightness" -> 5

\* C18: the draws of one candidate come in the order branch, positions,
\* arm rejection, colour, brightness; in particular no position draw
\* follows the candidate's rejection draw.
C18_DrawsInFixedOrder ==
    \A i, j \in 1..Len(draws) : i < j => DrawRank(draws[i]) <= DrawRank(draws[j])

\* C19: the loop of the sampler is entered at most 10 times, returns a
\* radius >= 0, and leaves early only where |F(r) - u| < 1e-6, where the
\* derivative is <= 1e-12, or where the iterate would be negative (then with
\* r = 0); it uses all 10 iterations otherwise.
C19_NewtonLoopBounded ==
    probe.star # NotSampled =>
        /\ probe.entered <= NEWTON_ITERATIONS
        /\ probe.star >= 0
        /\ probe.exit \in {"converged", "flat", "negative", "limit"}
        /\ probe.exit = "converged"
                => Abs(DiskCdf(probe.star, probe.diskScale) - probe.u) < 1
        /\ probe.exit = "flat"
                => /\ Abs(DiskCdf(probe.star, probe.diskScale) - probe.u) >= 1
                   /\ DiskSlope(probe.star, probe.diskScale)
                            <= SlopeFloor(probe.diskScale, probe.scale)
        /\ probe.exit = "negative" => probe.star = 0
        /\ probe.exit = "limit" => probe.entered = NEWTON_ITERATIONS

C19_Witness ==
    /\ probe.star # NotSampled
    /\ probe.exit = "limit"
    /\ probe.entered = NEWTON_ITERATIONS
    /\ probe.star > 0

(***************************************************************************)
(* The classification walk on its own: a roll and the index it selects.    *)
(***************************************************************************)
\* typeRoll = dist(rng): the hundredths of [0, 1).
TypeRolls == {k * (Fx \div 100) : k \in 0..99}

NotSelected == 0 - 1

\* The walk of generateStarField for the roll under study; selectedType is
\* the index into starTypes counted from 0.
selectStarType ==
    /\ probe.selectedType = NotSelected
    /\ probe' = [probe EXCEPT !.selectedType = SelectType(probe.typeRoll, 1) - 1]
    /\ lastCall' = "generateStarField:type"
    /\ UNCHANGED <<starVars, bhVars, solarVars, mainVars, lastDt, hung, nGenerations,
                   nUpdates>>

InitTypes ==
    /\ InitCommon
    /\ randState = 0
    /\ bhConfig = NoBlackHoleConfig
    /\ galaxyConfig = NoGalaxyConfig
    /\ \E roll \in TypeRolls : probe = [typeRoll |-> roll, selectedType |-> NotSelected]

NextTypes == selectStarType

SpecTypes == InitTypes /\ [][NextTypes]_vars

\* The entries, counted from 0, whose cumulative weight is >= the roll.
MatchingTypes(roll) ==
    {t \in 0..(Len(starTypes) - 1) : starTypes[t + 1].cumulative * (Fx \div 100) >= roll}

\* C20: the walk selects the first entry of the table whose cumulative
\* weight is >= the roll, the last entry (M) when there is none, and always
\* an index of 0..6.
C20_FirstMatchingType ==
    probe.selectedType # NotSelected =>
        /\ probe.selectedType \in 0..6
        /\ MatchingTypes(probe.typeRoll) # {}
                => /\ probe.selectedType \in MatchingTypes(probe.typeRoll)
                   /\ \A t \in MatchingTypes(probe.typeRoll) : probe.selectedType <= t
        /\ MatchingTypes(probe.typeRoll) = {} => probe.selectedType = 6

C20_Witness ==
    /\ probe.selectedType = 1
    /\ probe.typeRoll = starTypes[2].cumulative * (Fx \div 100)

\* A pass of the generator's loop body is taken.
LoopPass == genPc = "loop" /\ rng' # rng

\* C21: at every loop head the collection holds as many stars as the index
\* says; a pass classified as bulge always appends its star, a rejected pass
\* was classified as disk, appends nothing and keeps the index, and every
\* pass, a retry included, begins with its own classification draw.
C21_SizeEqualsIndexAtLoopHead ==
    /\ [](genPc = "loop" => Len(stars) = genI)
    /\ [][LoopPass =>
            /\ Head(draws') = "branch"
            /\ InBulge(rng) =>
                    /\ lastCall' = "generateStarField:bulge"
                    /\ Len(stars') = Len(stars) + 1
                    /\ SubSeq(stars', 1, Len(stars)) = stars
                    /\ genI' = genI + 1
            /\ lastCall' = "generateStarField:rejected" =>
                    /\ ~InBulge(rng)
                    /\ Len(stars') = Len(stars)
                    /\ genI' = genI]_vars

\* The first index was rejected and its retry became a bulge star.
C21_Witness ==
    /\ lastCall = "generateStarField:bulge"
    /\ rejections > 0
    /\ genI = 1
    /\ Len(stars) = 1

\* The central body as generated: at the origin and not in orbit.
AtRest(bh) ==
    /\ bh.x = 0 /\ bh.y = 0 /\ bh.z = 0
    /\ bh.radius = 0 /\ bh.angle = 0 /\ bh.angularVelocity = 0

\* C22: whatever updateBlackHoles calls were made, the supermassive body is
\* at the origin with radius, angle and angularVelocity 0; a call changes
\* nothing of it but its diskRotationAngle, and leaves the
\* diskRotationAngle of every body without an accretion disk as it was.
C22_SupermassiveStaysAtOrigin ==
    /\ [](\A k \in 1..Len(blackHoles) :
            blackHoles[k].type = "SUPERMASSIVE" => AtRest(blackHoles[k]))
    /\ [][lastCall' = "updateBlackHoles" =>
            /\ Len(blackHoles') = Len(blackHoles)
            /\ \A k \in 1..Len(blackHoles) :
                /\ blackHoles[k].type = "SUPERMASSIVE" =>
                        [blackHoles'[k] EXCEPT !.diskRotationAngle = 0]
                            = [blackHoles[k] EXCEPT !.diskRotationAngle = 0]
                /\ ~blackHoles[k].hasAccretionDisk =>
                        blackHoles'[k].diskRotationAngle
                            = blackHoles[k].diskRotationAngle]_vars

C22_Witness ==
    /\ lastCall = "updateBlackHoles"
    /\ nUpdates = MaxUpdates
    /\ \E k \in 1..Len(blackHoles) :
        /\ blackHoles[k].type = "SUPERMASSIVE"
        /\ blackHoles[k].diskRotationAngle # 0
    /\ \E k \in 1..Len(blackHoles) :
        /\ ~blackHoles[k].hasAccretionDisk
        /\ blackHoles[k].diskRotationAngle # 0

====
